---------------------------- MODULE Spec2Model ----------------------------
(***************************************************************************)
(* Latent-space face editing: the command-line editor                      *)
(* (encoder/InterFaceGAN/edit.py, main) and the interactive editor         *)
(* (gui/face_modify.py, FaceModifier), with the two numerical routines     *)
(* they rest on, project_boundary and linear_interpolate.                  *)
(*                                                                         *)
(* Arithmetic is exact.  A number is (p + q*rho)/d with integers p, q, d,  *)
(* d > 0, where rho = 1/sqrt(rad) and rad is a positive integer that is    *)
(* not a perfect square (or rad = 1 and q = 0): these numbers are closed   *)
(* under + - * / and hold every value the routines produce from rational   *)
(* inputs, the unit-length boundary included.  Floating-point rounding is  *)
(* not modelled.                                                           *)
(***************************************************************************)
EXTENDS Integers, Sequences, FiniteSets, TLC

\* ------------------------------------------------------------ numbers

Abs(x) == IF x < 0 THEN -x ELSE x

RECURSIVE Gcd(_, _)
Gcd(a, b) == IF b = 0 THEN a ELSE Gcd(b, a % b)

\* (p + q*rho)/d in lowest terms with a positive denominator
MkNum(p, q, d) ==
  LET g == Gcd(Gcd(Abs(p), Abs(q)), Abs(d))
      s == IF d < 0 THEN -1 ELSE 1
  IN  [p |-> (s * p) \div g, q |-> (s * q) \div g, d |-> (s * d) \div g]

Rat(n, d) == MkNum(n, 0, d)
FromInt(i) == MkNum(i, 0, 1)
Zero == FromInt(0)
One == FromInt(1)

IsZero(x) == x.p = 0 /\ x.q = 0
NNeg(x) == [p |-> -x.p, q |-> -x.q, d |-> x.d]
NAdd(x, y) == MkNum(x.p * y.d + y.p * x.d, x.q * y.d + y.q * x.d, x.d * y.d)
NSub(x, y) == NAdd(x, NNeg(y))
\* rho * rho = 1/rad
NMul(x, y, rad) ==
  MkNum(rad * x.p * y.p + x.q * y.q,
        rad * (x.p * y.q + x.q * y.p),
        rad * x.d * y.d)
\* 1/x = d * (p - q*rho) / (p^2 - q^2/rad)
NInv(x, rad) ==
  MkNum(x.d * rad * x.p, -(x.d * rad * x.q), rad * x.p * x.p - x.q * x.q)
NDiv(x, y, rad) == NMul(x, NInv(y, rad), rad)

IsSquare(n) == \E s \in 0..n : s * s = n
ISqrt(n) == CHOOSE s \in 0..n : s * s = n

\* ------------------------------------------------------------ vectors

VAdd(u, v) == [i \in 1..Len(u) |-> NAdd(u[i], v[i])]
VSub(u, v) == [i \in 1..Len(u) |-> NSub(u[i], v[i])]
VScale(c, v, rad) == [i \in 1..Len(v) |-> NMul(c, v[i], rad)]
VZero(n) == [i \in 1..n |-> Zero]
IntVec(t) == [i \in 1..Len(t) |-> FromInt(t[i])]

RECURSIVE DotUpTo(_, _, _, _)
DotUpTo(u, v, n, rad) ==
  IF n = 0 THEN Zero
  ELSE NAdd(DotUpTo(u, v, n - 1, rad), NMul(u[n], v[n], rad))

Dot(u, v, rad) == DotUpTo(u, v, Len(u), rad)

\* ------------------------------------------------------------ matrices

\* A . A^T for the matrix whose rows are A[1..n]
GramMatrix(A, rad) ==
  [i \in 1..Len(A) |-> [j \in 1..Len(A) |-> Dot(A[i], A[j], rad)]]

\* M without row r and column c
Minor(M, r, c) ==
  LET n == Len(M)
      Row(i) == IF i < r THEN i ELSE i + 1
      Col(j) == IF j < c THEN j ELSE j + 1
  IN  [i \in 1..(n - 1) |-> [j \in 1..(n - 1) |-> M[Row(i)][Col(j)]]]

RECURSIVE Det(_, _)
RECURSIVE DetExpand(_, _, _)
\* the first j terms of the expansion of Det(M) along row 1
DetExpand(M, j, rad) ==
  IF j = 0 THEN Zero
  ELSE LET term == NMul(M[1][j], Det(Minor(M, 1, j), rad), rad)
       IN  NAdd(DetExpand(M, j - 1, rad),
                IF j % 2 = 1 THEN term ELSE NNeg(term))

Det(M, rad) == IF Len(M) = 0 THEN One ELSE DetExpand(M, Len(M), rad)

Cofactor(M, i, j, rad) ==
  LET m == Det(Minor(M, i, j), rad)
  IN  IF (i + j) % 2 = 0 THEN m ELSE NNeg(m)

\* the inverse of a matrix whose determinant is not zero
Inverse(M, rad) ==
  LET det == Det(M, rad)
  IN  [i \in 1..Len(M) |->
        [j \in 1..Len(M) |-> NDiv(Cofactor(M, j, i, rad), det, rad)]]

\* ------------------------------------------------------------ the numerical core
\* utils/manipulator.py is not among the sources; both routines follow the
\* design document (sections 4.1 and 4.2).

\* Normalize that divides by the squared norm (the square root forgotten)
NormalizeNoSqrt(v, rad) ==
  [vec |-> VScale(NInv(Dot(v, v, rad), rad), v, rad), rad |-> rad]

\* v / norm(v), for v with radicand rad; the result names its own radicand.
\* A rational squared norm p/d that is no perfect square gives the new
\* radicand p*d, since 1/sqrt(p/d) = d/sqrt(p*d).
Normalize(v, rad) ==
  LET s == Dot(v, v, rad)
  IN  IF s.q = 0 /\ IsSquare(s.p) /\ IsSquare(s.d)
      THEN [vec |-> VScale(Rat(ISqrt(s.d), ISqrt(s.p)), v, rad), rad |-> rad]
      ELSE IF s.q = 0 /\ \A i \in 1..Len(v) : v[i].q = 0
      THEN [vec |-> [i \in 1..Len(v) |-> MkNum(0, v[i].p * s.d, v[i].d)],
            rad |-> s.p * s.d]
      ELSE [vec |-> "unrepresentable", rad |-> rad]

\* sum over j in 1..n of row[j] * A[j]
RECURSIVE Combine(_, _, _, _)
Combine(row, A, n, rad) ==
  IF n = 0 THEN VZero(Len(A[1]))
  ELSE VAdd(Combine(row, A, n - 1, rad), VScale(row[n], A[n], rad))

\* project(primary, conditionals): row 1 of A is the primary boundary
project_boundary(primal, conds, rad) ==
  IF conds = <<>>
  THEN LET r == Normalize(primal, rad)
       IN  [status |-> "ok", vec |-> r.vec, rad |-> r.rad, solved |-> FALSE]
  ELSE LET A == <<primal>> \o conds
           G == GramMatrix(A, rad)
       IN  IF IsZero(Det(G, rad))
           THEN [status |-> "SingularMatrix", vec |-> <<>>, rad |-> rad,
                 solved |-> TRUE]
           ELSE LET inv == Inverse(G, rad)
                    \* primary - sum_i coef_i * conditional_i, with
                    \* coef_i = - inv[1][i+1] / inv[1][1]
                    coef == [j \in 1..Len(A) |-> NDiv(inv[1][j], inv[1][1], rad)]
                    new == Combine(coef, A, Len(A), rad)
                    r == Normalize(new, rad)
                IN  [status |-> "ok", vec |-> r.vec, rad |-> r.rad,
                     solved |-> TRUE]

Max(a, b) == IF a > b THEN a ELSE b

\* distances[k] = start + k * (end - start) / max(steps - 1, 1)
Distance(start, end, steps, k) ==
  NAdd(start, NMul(Rat(k, Max(steps - 1, 1)), NSub(end, start), 1))

\* interpolate(code, boundary, start, end, steps): output[k] is element k + 1
linear_interpolate(code, boundary, start, end, steps, rad) ==
  IF Len(code) # Len(boundary)
  THEN [status |-> "ShapeMismatch", seq |-> <<>>]
  ELSE IF steps < 1
  THEN [status |-> "InvalidRange", seq |-> <<>>]
  ELSE [status |-> "ok",
        seq |-> [k \in 1..steps |->
                  VAdd(code, VScale(Distance(start, end, steps, k - 1),
                                    boundary, rad))]]

\* ------------------------------------------------------------ bounds and inputs

MaxSteps == 3
MaxSamples == 2
MaxBatch == 2

\* a path that names no file
NoFile == <<>>

\* contents of the file --boundary_path names (non-zero vectors)
PrimalPool == {<<1, 0, 0>>, <<1, 2, 2>>, <<1, 1, 0>>}
\* contents of the files the conditional boundary paths name
CondPool == {<<1, 0, 0>>, <<0, 1, 1>>, <<2, 2, 0>>}
\* --start_distance and --end_distance
StartEndPool == {<<Rat(-1, 1), Rat(1, 1)>>, <<Rat(1, 2), Rat(1, 2)>>,
                 <<Rat(2, 1), Rat(0, 1)>>}
\* the i-th latent code loaded or sampled
CodeAt(i) == IntVec(<<i - 1, 1 - 2 * i, i>>)

\* ------------------------------------------------------------ edit.py

VARIABLES
  \* edit.py, main
  pc,               \* position in main, "done" or "failed"
  args,             \* the parsed command line
  batch_size,       \* the generator's batch size
  boundary,         \* the variable boundary: [vec, rad]
  cond_boundaries,  \* the list cond_boundaries
  latent_codes,     \* the array latent_codes, one row per sample
  sample_id,        \* the loop variable of line 121
  interpolations,   \* the result of the last linear_interpolate call
  pending,          \* the interpolations get_batch_inputs has not yielded yet
  interpolation_id, \* the counter of lines 127 and 137
  files,            \* the output directory: file name -> contents
  writes,           \* number of cv2.imwrite calls so far
  interp_calls,     \* number of linear_interpolate calls so far
  solved,           \* whether project_boundary solved a linear system
  error,            \* the exception that ended the run, or "none"
  \* face_modify.py, a FaceModifier2 and its caller
  heap,             \* the arrays that exist: reference -> contents
  latent_code,      \* self.latent_code, a reference
  loaded,           \* the four boundary files as read by __init__
  given,            \* what the caller passed to set_latent_code: [ref, value]
  returned,         \* what modify returned as latent code: [ref, value]
  last,             \* the last modify call: offsets, code before, result
  applied,          \* the code last set and the displacements added since
  calls,            \* number of set_latent_code and modify calls so far
  \* a caller of project_boundary that projects its result again
  p_pc, p_primal, p_conds, p_first, p_second,
  \* independent callers of the two routines over shared arrays
  c_mem,            \* the arrays the callers share: name -> [vec, rad]
  c_call            \* caller -> its call: position, request, copies, result

editVars == <<pc, args, batch_size, boundary, cond_boundaries, latent_codes,
              sample_id, interpolations, pending, interpolation_id, files,
              writes, interp_calls, solved, error>>
guiVars == <<heap, latent_code, loaded, given, returned, last, applied,
             calls>>
projVars == <<p_pc, p_primal, p_conds, p_first, p_second>>
concVars == <<c_mem, c_call>>
vars == <<editVars, guiVars, projVars, concVars>>

\* parse_args: the values the command line can give
ArgSpace ==
  [boundary : PrimalPool \cup {NoFile},
   cond1 : CondPool \cup {NoFile},
   cond2 : CondPool \cup {NoFile},
   steps : (-1)..MaxSteps,
   dist : StartEndPool]

\* AppendCond with `elif` for the second `if`: one conditional at most
AppendCondOnce(conds, f) ==
  IF f # NoFile /\ conds = <<>> THEN Append(conds, IntVec(f)) ELSE conds

\* AppendCond that skips a boundary already in the list
AppendCondDedup(conds, f) ==
  IF f # NoFile /\ \A i \in 1..Len(conds) : conds[i] # IntVec(f)
  THEN Append(conds, IntVec(f))
  ELSE conds

\* os.path.isfile(path), then cond_boundaries.append(np.load(path))
AppendCond(conds, f) ==
  IF f # NoFile THEN Append(conds, IntVec(f)) ELSE conds

\* ProjectCall without the projection: the loaded boundary is used as it is
ProjectCallSkipped(b, conds) ==
  [status |-> "ok", vec |-> b.vec, rad |-> b.rad, solved |-> FALSE]

\* boundary = project_boundary(boundary, *cond_boundaries)
ProjectCall(b, conds) == project_boundary(b.vec, conds, b.rad)

\* InterpolateCall with start_distance and end_distance exchanged
InterpolateCallSwapped(codes, sid, b, a) ==
  linear_interpolate(codes[sid + 1], b.vec, a.dist[2], a.dist[1], a.steps,
                     b.rad)

\* InterpolateCall asking for one step too many
InterpolateCallExtraStep(codes, sid, b, a) ==
  linear_interpolate(codes[sid + 1], b.vec, a.dist[1], a.dist[2],
                     a.steps + 1, b.rad)

\* InterpolateCall that raises a step count below 1 to 1
InterpolateCallClamped(codes, sid, b, a) ==
  linear_interpolate(codes[sid + 1], b.vec, a.dist[1], a.dist[2],
                     Max(a.steps, 1), b.rad)

\* linear_interpolate(latent_codes[sample_id:sample_id + 1], boundary,
\*                    start_distance=..., end_distance=..., steps=...)
InterpolateCall(codes, sid, b, a) ==
  linear_interpolate(codes[sid + 1], b.vec, a.dist[1], a.dist[2], a.steps,
                     b.rad)

\* the decoder is opaque: one image per code, in the same order
Image(code) == <<"image", code>>
easy_synthesize(batch) == [i \in 1..Len(batch) |-> Image(batch[i])]

\* the next batch get_batch_inputs yields: at most size codes, in order
FirstBatch(codes, size) ==
  SubSeq(codes, 1, IF Len(codes) < size THEN Len(codes) ELSE size)

\* a file name: <<kind, sample_id, interpolation_id>>
BoundaryFile == <<"boundary.npy", 0, 0>>
LatentCodesFile == <<"latent_codes.npy", 0, 0>>
ImageFile(sid, iid) == <<"jpg", sid, iid>>

WriteFile(fs, name, data) ==
  [n \in DOMAIN fs \cup {name} |-> IF n = name THEN data ELSE fs[n]]

\* WriteImages that numbers the images of each batch from 0
RECURSIVE WriteImagesPerBatch(_, _, _, _, _)
WriteImagesPerBatch(fs, images, sid, iid, n) ==
  IF n = 0 THEN fs
  ELSE WriteFile(WriteImagesPerBatch(fs, images, sid, iid, n - 1),
                 ImageFile(sid, n - 1), images[n])

\* the inner loop of lines 134-137 over one batch of images
RECURSIVE WriteImages(_, _, _, _, _)
WriteImages(fs, images, sid, iid, n) ==
  IF n = 0 THEN fs
  ELSE WriteFile(WriteImages(fs, images, sid, iid, n - 1),
                 ImageFile(sid, iid + n - 1), images[n])

Fail(e) ==
  /\ pc' = "failed"
  /\ error' = e

InitEdit ==
  /\ pc = "load_boundary"
  /\ args \in ArgSpace
  /\ batch_size \in 1..MaxBatch
  /\ boundary = [vec |-> <<>>, rad |-> 1]
  /\ cond_boundaries = <<>>
  /\ latent_codes = <<>>
  /\ sample_id = 0
  /\ interpolations = <<>>
  /\ pending = <<>>
  /\ interpolation_id = 0
  /\ files = <<>>
  /\ writes = 0
  /\ interp_calls = 0
  /\ solved = FALSE
  /\ error = "none"

\* lines 89-91
LoadBoundary ==
  /\ pc = "load_boundary"
  /\ IF args.boundary = NoFile
     THEN /\ Fail("ValueError")
          /\ UNCHANGED boundary
     ELSE /\ boundary' = [vec |-> IntVec(args.boundary), rad |-> 1]
          /\ pc' = "load_conditionals"
          /\ UNCHANGED error
  /\ UNCHANGED <<args, batch_size, cond_boundaries, latent_codes, sample_id,
                 interpolations, pending, interpolation_id, files, writes,
                 interp_calls, solved>>
  /\ UNCHANGED <<guiVars, projVars, concVars>>

\* lines 93-101
LoadConditionals ==
  /\ pc = "load_conditionals"
  /\ cond_boundaries' = AppendCond(AppendCond(<<>>, args.cond1), args.cond2)
  /\ pc' = "project"
  /\ UNCHANGED <<args, batch_size, boundary, latent_codes, sample_id,
                 interpolations, pending, interpolation_id, files, writes,
                 interp_calls, solved, error>>
  /\ UNCHANGED <<guiVars, projVars, concVars>>

\* lines 103-104
ProjectBoundary ==
  /\ pc = "project"
  /\ LET r == ProjectCall(boundary, cond_boundaries)
     IN  /\ solved' = r.solved
         /\ IF r.status # "ok"
            THEN /\ Fail(r.status)
                 /\ UNCHANGED <<boundary, files>>
            ELSE /\ boundary' = [vec |-> r.vec, rad |-> r.rad]
                 /\ files' = WriteFile(files, BoundaryFile, boundary')
                 /\ pc' = "prepare_codes"
                 /\ UNCHANGED error
  /\ UNCHANGED <<args, batch_size, cond_boundaries, latent_codes, sample_id,
                 interpolations, pending, interpolation_id, writes,
                 interp_calls>>
  /\ UNCHANGED <<guiVars, projVars, concVars>>

\* lines 107-117
PrepareLatentCodes ==
  /\ pc = "prepare_codes"
  /\ \E total_num \in 0..MaxSamples :
       latent_codes' = [i \in 1..total_num |-> CodeAt(i)]
  /\ files' = WriteFile(files, LatentCodesFile, latent_codes')
  /\ sample_id' = 0
  /\ pc' = "sample"
  /\ UNCHANGED <<args, batch_size, boundary, cond_boundaries, interpolations,
                 pending, interpolation_id, writes, interp_calls, solved,
                 error>>
  /\ UNCHANGED <<guiVars, projVars, concVars>>

\* lines 121-127: the next sample, or line 140 when there is none
NextSample ==
  /\ pc = "sample"
  /\ IF sample_id >= Len(latent_codes)
     THEN /\ pc' = "done"
          /\ UNCHANGED <<interpolations, pending, interpolation_id,
                         interp_calls, error>>
     ELSE LET r == InterpolateCall(latent_codes, sample_id, boundary, args)
          IN  /\ interp_calls' = interp_calls + 1
              /\ IF r.status # "ok"
                 THEN /\ Fail(r.status)
                      /\ UNCHANGED <<interpolations, pending,
                                     interpolation_id>>
                 ELSE /\ interpolations' = r.seq
                      /\ pending' = r.seq
                      /\ interpolation_id' = 0
                      /\ pc' = "batch"
                      /\ UNCHANGED error
  /\ UNCHANGED <<args, batch_size, boundary, cond_boundaries, latent_codes,
                 sample_id, files, writes, solved>>
  /\ UNCHANGED <<guiVars, projVars, concVars>>

\* lines 128-137: one batch is synthesized and its images are written
SynthesizeBatch ==
  /\ pc = "batch"
  /\ pending # <<>>
  /\ LET batch == FirstBatch(pending, batch_size)
         images == easy_synthesize(batch)
     IN  /\ files' = WriteImages(files, images, sample_id, interpolation_id,
                                 Len(images))
         /\ writes' = writes + Len(images)
         /\ interpolation_id' = interpolation_id + Len(images)
         /\ pending' = SubSeq(pending, Len(batch) + 1, Len(pending))
  /\ UNCHANGED <<pc, args, batch_size, boundary, cond_boundaries,
                 latent_codes, sample_id, interpolations, interp_calls,
                 solved, error>>
  /\ UNCHANGED <<guiVars, projVars, concVars>>

\* lines 138-139
FinishSample ==
  /\ pc = "batch"
  /\ pending = <<>>
  /\ IF interpolation_id = args.steps
     THEN /\ sample_id' = sample_id + 1
          /\ pc' = "sample"
          /\ UNCHANGED error
     ELSE /\ Fail("AssertionError")
          /\ UNCHANGED sample_id
  /\ UNCHANGED <<args, batch_size, boundary, cond_boundaries, latent_codes,
                 interpolations, pending, interpolation_id, files, writes,
                 interp_calls, solved>>
  /\ UNCHANGED <<guiVars, projVars, concVars>>

\* the other two components, not running
GuiIdle ==
  /\ heap = <<>>
  /\ latent_code = 0
  /\ loaded = <<>>
  /\ given = <<>>
  /\ returned = <<>>
  /\ last = <<>>
  /\ applied = <<>>
  /\ calls = 0

ProjIdle ==
  /\ p_pc = "idle"
  /\ p_primal = <<>>
  /\ p_conds = <<>>
  /\ p_first = <<>>
  /\ p_second = <<>>

ConcIdle ==
  /\ c_mem = <<>>
  /\ c_call = <<>>

Init == InitEdit /\ GuiIdle /\ ProjIdle /\ ConcIdle

Next ==
  \/ LoadBoundary
  \/ LoadConditionals
  \/ ProjectBoundary
  \/ PrepareLatentCodes
  \/ NextSample
  \/ SynthesizeBatch
  \/ FinishSample

Spec == Init /\ [][Next]_vars

EditIdle ==
  /\ pc = "idle"
  /\ args = <<>>
  /\ batch_size = 0
  /\ boundary = <<>>
  /\ cond_boundaries = <<>>
  /\ latent_codes = <<>>
  /\ sample_id = 0
  /\ interpolations = <<>>
  /\ pending = <<>>
  /\ interpolation_id = 0
  /\ files = <<>>
  /\ writes = 0
  /\ interp_calls = 0
  /\ solved = FALSE
  /\ error = "none"

\* ------------------------------------------------------------ face_modify.py

MaxCalls == 3

\* the arrays FaceModifier2.__init__ loads, in the order age, pose, gender,
\* smile: they are the first four arrays of the heap
age_boundary == 1
pose_boundary == 2
gender_boundary == 3
smile_boundary == 4

\* contents of the four boundary files
BoundaryFiles ==
  {<<<<1, 0, 0>>, <<0, 1, 0>>, <<0, 0, 1>>, <<1, 1, 1>>>>,
   <<<<1, 2, 0>>, <<0, 1, -1>>, <<2, 0, 1>>, <<1, -1, 0>>>>}
\* what np.empty may hold
EmptyPool == {<<0, 0, 0>>, <<7, -3, 5>>}
\* latent codes the caller passes to set_latent_code
CallerCodes == {<<0, 0, 0>>, <<1, -2, 3>>}
\* <<age_offset, gender_offset, pose_offset, smile_offset>>
OffsetPool ==
  {<<0, 0, 0, 0>>, <<1, 0, 0, 0>>, <<0, 0, -1, 0>>, <<0, 0, 0, 2>>,
   <<0, 0, 1, -1>>, <<1, -1, 2, 3>>}

\* the state a method of the object works on
Self == [heap |-> heap, latent_code |-> latent_code, edits |-> <<>>,
         synth_calls |-> 0]

\* modify_latent_code that adds into self.latent_code in place
modify_latent_code_inplace(self, b, offset) ==
  LET modified_code == VAdd(self.heap[self.latent_code],
                            VScale(FromInt(offset), self.heap[b], 1))
  IN  [heap |-> [self.heap EXCEPT ![self.latent_code] = modified_code],
       ref |-> self.latent_code]

\* modify_latent_code that subtracts the scaled boundary
modify_latent_code_sub(self, b, offset) ==
  LET modified_code == VSub(self.heap[self.latent_code],
                            VScale(FromInt(offset), self.heap[b], 1))
  IN  [heap |-> Append(self.heap, modified_code), ref |-> Len(self.heap) + 1]

\* np.add(self.latent_code, np.multiply(boundary, offset)): a new array
modify_latent_code(self, b, offset) ==
  LET modified_code == VAdd(self.heap[self.latent_code],
                            VScale(FromInt(offset), self.heap[b], 1))
  IN  [heap |-> Append(self.heap, modified_code), ref |-> Len(self.heap) + 1]

\* Assign that computes the new code and does not keep it
AssignDropped(self, b, offset) ==
  LET r == modify_latent_code(self, b, offset)
  IN  [self EXCEPT
         !.heap = r.heap,
         !.edits = Append(@, [before |-> self.heap[self.latent_code],
                              boundary |-> self.heap[b],
                              offset |-> offset,
                              after |-> r.heap[r.ref]])]

\* self.latent_code = self.modify_latent_code(boundary, offset)
Assign(self, b, offset) ==
  LET r == modify_latent_code(self, b, offset)
  IN  [self EXCEPT
         !.heap = r.heap,
         !.latent_code = r.ref,
         !.edits = Append(@, [before |-> self.heap[self.latent_code],
                              boundary |-> self.heap[b],
                              offset |-> offset,
                              after |-> r.heap[r.ref]])]

change_age(self, offset) == Assign(self, age_boundary, offset)
change_pose(self, offset) == Assign(self, pose_boundary, offset)
change_smile(self, offset) == Assign(self, smile_boundary, offset)
change_gender(self, offset) == Assign(self, gender_boundary, offset)

\* the decoder is opaque: postprocess(img_rec[0]) is the image rendered for
\* a code, an array of height x width x channel, no index taken of it yet
Decode(code) ==
  [of |-> code, shape |-> <<"height", "width", "channel">>, index |-> <<>>]

\* array[0]: the first entry along the leading axis
First(array) ==
  [array EXCEPT !.shape = Tail(@), !.index = Append(@, 0)]

synthesize(self) ==
  [self |-> [self EXCEPT !.synth_calls = @ + 1],
   image |-> Decode(self.heap[self.latent_code])]

\* lines 80-81
ApplyAge(self, age_offset) ==
  IF age_offset # 0 THEN change_age(self, age_offset) ELSE self

\* lines 82-83
ApplyPose(self, pose_offset) ==
  IF pose_offset # 0 THEN change_pose(self, pose_offset) ELSE self

\* lines 84-85: the smile offset is handed to change_pose
ApplySmile(self, smile_offset) ==
  IF smile_offset # 0 THEN change_pose(self, smile_offset) ELSE self

\* lines 86-87
ApplyGender(self, gender_offset) ==
  IF gender_offset # 0 THEN change_gender(self, gender_offset) ELSE self

\* lines 89-93
SynthesizeFirst(self) ==
  LET out == synthesize(self)
  IN  [self |-> out.self, image |-> First(out.image),
       code |-> out.self.latent_code]

\* line 78
SynthesizeWhole(self) ==
  LET out == synthesize(self)
  IN  [self |-> out.self, image |-> out.image,
       code |-> out.self.latent_code]

\* modify without the early return, every change_* called whatever its offset
modify_unconditional(self, age_offset, gender_offset, pose_offset, smile_offset) ==
  SynthesizeFirst(
    change_gender(
      change_pose(
        change_pose(
          change_age(self, age_offset),
          pose_offset),
        smile_offset),
      gender_offset))

modify(self, age_offset, gender_offset, pose_offset, smile_offset) ==
  IF age_offset = 0 /\ pose_offset = 0 /\ smile_offset = 0 /\ gender_offset = 0
  THEN SynthesizeWhole(self)
  ELSE SynthesizeFirst(
         ApplyGender(
           ApplySmile(
             ApplyPose(
               ApplyAge(self, age_offset),
               pose_offset),
             smile_offset),
           gender_offset))

\* FaceModifier2.__init__: np.empty for the latent code, four loaded boundaries
InitGui ==
  /\ loaded \in BoundaryFiles
  /\ \E e \in EmptyPool :
       heap = [i \in 1..4 |-> IntVec(loaded[i])] \o <<IntVec(e)>>
  /\ latent_code = 5
  /\ given = <<>>
  /\ returned = <<>>
  /\ last = [op |-> "init"]
  /\ applied = [base |-> heap[5], displacements |-> <<>>]
  /\ calls = 0

\* the arrays the caller holds a reference to
CallerRefs ==
  {given[i].ref : i \in 1..Len(given)}
    \cup {returned[i].ref : i \in 1..Len(returned)}

\* set_latent_code(latent_code) with a new array
SetLatentCodeNew ==
  /\ calls < MaxCalls
  /\ \E c \in CallerCodes :
       /\ heap' = Append(heap, IntVec(c))
       /\ latent_code' = Len(heap) + 1
       /\ given' = Append(given, [ref |-> Len(heap) + 1, value |-> IntVec(c)])
       /\ applied' = [base |-> IntVec(c), displacements |-> <<>>]
  /\ last' = [op |-> "set_latent_code"]
  /\ calls' = calls + 1
  /\ UNCHANGED <<loaded, returned>>
  /\ UNCHANGED <<editVars, projVars, concVars>>

\* set_latent_code(latent_code) with an array the caller already holds
SetLatentCodeHeld ==
  /\ calls < MaxCalls
  /\ \E r \in CallerRefs :
       /\ latent_code' = r
       /\ given' = Append(given, [ref |-> r, value |-> heap[r]])
       /\ applied' = [base |-> heap[r], displacements |-> <<>>]
  /\ last' = [op |-> "set_latent_code"]
  /\ calls' = calls + 1
  /\ UNCHANGED <<heap, loaded, returned>>
  /\ UNCHANGED <<editVars, projVars, concVars>>

\* modify(age_offset, gender_offset, pose_offset, smile_offset)
Modify ==
  /\ calls < MaxCalls
  /\ \E o \in OffsetPool :
       LET r == modify(Self, o[1], o[2], o[3], o[4])
       IN  /\ heap' = r.self.heap
           /\ latent_code' = r.self.latent_code
           /\ returned' = Append(returned, [ref |-> r.code,
                                            value |-> r.self.heap[r.code]])
           /\ applied' = [applied EXCEPT
                            !.displacements = @ \o r.self.edits]
           /\ last' = [op |-> "modify",
                       offsets |-> o,
                       before |-> heap[latent_code],
                       before_ref |-> latent_code,
                       allocated |-> Len(r.self.heap) - Len(heap),
                       edits |-> r.self.edits,
                       synth_calls |-> r.self.synth_calls,
                       image |-> r.image,
                       code |-> r.code]
  /\ calls' = calls + 1
  /\ UNCHANGED <<loaded, given>>
  /\ UNCHANGED <<editVars, projVars, concVars>>

NextGui ==
  \/ SetLatentCodeNew
  \/ SetLatentCodeHeld
  \/ Modify

GuiStart == InitGui /\ EditIdle /\ ProjIdle /\ ConcIdle

SpecGui == GuiStart /\ [][NextGui]_vars

\* ------------------------------------------------------------ projecting twice

\* primary boundaries a caller of project_boundary may hold
ProjPrimalPool == PrimalPool \cup {<<0, 1, -1>>, <<2, -1, 3>>}
\* its conditional boundaries: none, one or two
ProjCondLists ==
  {<<>>} \cup {<<IntVec(c)>> : c \in CondPool}
         \cup {<<IntVec(c), IntVec(e)>> : c \in CondPool, e \in CondPool}

InitProj ==
  /\ p_pc = "first"
  /\ p_primal \in ProjPrimalPool
  /\ p_conds \in ProjCondLists
  /\ p_first = <<>>
  /\ p_second = <<>>

\* R = project(B, Cs)
ProjectFirst ==
  /\ p_pc = "first"
  /\ p_first' = project_boundary(IntVec(p_primal), p_conds, 1)
  /\ p_pc' = IF p_first'.status = "ok" THEN "second" ELSE "failed"
  /\ UNCHANGED <<p_primal, p_conds, p_second>>
  /\ UNCHANGED <<editVars, guiVars, concVars>>

\* project(R, Cs)
ProjectSecond ==
  /\ p_pc = "second"
  /\ p_second' = project_boundary(p_first.vec, p_conds, p_first.rad)
  /\ p_pc' = "done"
  /\ UNCHANGED <<p_primal, p_conds, p_first>>
  /\ UNCHANGED <<editVars, guiVars, concVars>>

NextProj ==
  \/ ProjectFirst
  \/ ProjectSecond

ProjStart == InitProj /\ EditIdle /\ GuiIdle /\ ConcIdle

SpecProject == ProjStart /\ [][NextProj]_vars

\* ------------------------------------------------------------ concurrent callers

\* the calling contexts
Callers == {"a", "b"}

\* the arrays the callers hold in common
SharedArrays ==
  [primal |-> [vec |-> IntVec(<<1, 2, 2>>), rad |-> 1],
   other |-> [vec |-> IntVec(<<0, 3, 4>>), rad |-> 1],
   cond |-> [vec |-> IntVec(<<1, 1, 0>>), rad |-> 1],
   code |-> [vec |-> IntVec(<<1, -2, 3>>), rad |-> 1]]

\* what a caller may ask for: the first input and the remaining ones by name
Requests ==
  [op : {"project"}, first : {"primal", "other"}, rest : {<<>>, <<"cond">>},
   start : {Zero}, end : {Zero}, steps : {0}]
    \cup
  [op : {"interpolate"}, first : {"code"}, rest : {<<"primal">>, <<"other">>},
   start : {Rat(-1, 1)}, end : {Rat(1, 2), Rat(1, 1)}, steps : {1, 3}]

\* the routine of a request on the given input values
Apply(req, first, rest) ==
  IF req.op = "project"
  THEN project_boundary(first.vec, [i \in 1..Len(rest) |-> rest[i].vec],
                        first.rad)
  ELSE linear_interpolate(first.vec, rest[1].vec, req.start, req.end,
                          req.steps, rest[1].rad)

\* a routine that stores a projected boundary over its first input
PublishInPlace(mem, req, result) ==
  IF req.op = "project" /\ result.status = "ok"
  THEN [mem EXCEPT ![req.first] = [vec |-> result.vec, rad |-> result.rad]]
  ELSE mem

\* the shared arrays after a routine has returned: outputs are fresh
\* arrays, and the inputs are left as they were
Publish(mem, req, result) == mem

InitConc ==
  /\ c_mem = SharedArrays
  /\ c_call = [i \in Callers |-> [pc |-> "idle"]]

\* a caller invokes a routine
Begin(i) ==
  /\ c_call[i].pc = "idle"
  /\ \E req \in Requests :
       c_call' = [c_call EXCEPT ![i] = [pc |-> "copy_first", req |-> req]]
  /\ UNCHANGED c_mem
  /\ UNCHANGED <<editVars, guiVars, projVars>>

\* the routine takes its copy of the first input
CopyFirst(i) ==
  /\ c_call[i].pc = "copy_first"
  /\ c_call' = [c_call EXCEPT ![i] =
                  [pc |-> "copy_rest", req |-> c_call[i].req,
                   first |-> c_mem[c_call[i].req.first]]]
  /\ UNCHANGED c_mem
  /\ UNCHANGED <<editVars, guiVars, projVars>>

\* the routine takes its copies of the remaining inputs
CopyRest(i) ==
  /\ c_call[i].pc = "copy_rest"
  /\ LET req == c_call[i].req
     IN  c_call' = [c_call EXCEPT ![i] =
                      [pc |-> "compute", req |-> req,
                       first |-> c_call[i].first,
                       rest |-> [k \in 1..Len(req.rest) |-> c_mem[req.rest[k]]]]]
  /\ UNCHANGED c_mem
  /\ UNCHANGED <<editVars, guiVars, projVars>>

\* the routine computes on its copies and returns
Return(i) ==
  /\ c_call[i].pc = "compute"
  /\ LET req == c_call[i].req
         result == Apply(req, c_call[i].first, c_call[i].rest)
     IN  /\ c_call' = [c_call EXCEPT ![i] =
                         [pc |-> "returned", req |-> req, result |-> result]]
         /\ c_mem' = Publish(c_mem, req, result)
  /\ UNCHANGED <<editVars, guiVars, projVars>>

NextConc ==
  \E i \in Callers :
    \/ Begin(i)
    \/ CopyFirst(i)
    \/ CopyRest(i)
    \/ Return(i)

ConcStart == InitConc /\ EditIdle /\ GuiIdle /\ ProjIdle

SpecConc == ConcStart /\ [][NextConc]_vars

\* ------------------------------------------------------------ properties of edit.py

\* x > 0, for x = (p + q*rho)/d with rho = 1/sqrt(rad) > 0
IsPositive(x, rad) ==
  \/ x.p >= 0 /\ x.q >= 0 /\ ~IsZero(x)
  \/ x.p > 0 /\ x.q < 0 /\ rad * x.p * x.p > x.q * x.q
  \/ x.p < 0 /\ x.q > 0 /\ rad * x.p * x.p < x.q * x.q

Cross(u, v) ==
  <<u[2] * v[3] - u[3] * v[2], u[3] * v[1] - u[1] * v[3],
    u[1] * v[2] - u[2] * v[1]>>

\* linear independence of at most three integer vectors of dimension 3
LinearlyIndependent(vs) ==
  CASE Len(vs) = 0 -> TRUE
    [] Len(vs) = 1 -> vs[1] # <<0, 0, 0>>
    [] Len(vs) = 2 -> Cross(vs[1], vs[2]) # <<0, 0, 0>>
    [] Len(vs) = 3 ->
         LET c == Cross(vs[2], vs[3])
         IN  vs[1][1] * c[1] + vs[1][2] * c[2] + vs[1][3] * c[3] # 0

\* the conditional boundary files the command line names that exist
GivenConds ==
  (IF args.cond1 # NoFile THEN <<args.cond1>> ELSE <<>>)
    \o (IF args.cond2 # NoFile THEN <<args.cond2>> ELSE <<>>)

\* the run is just past line 104 (project_boundary returned)
JustProjected == pc = "prepare_codes"
\* the run is just past line 127 (linear_interpolate returned)
JustInterpolated == pc = "batch" /\ interpolation_id = 0

\* the t with out - code = t * b, read off the first non-zero entry of b
DistanceOf(out, code, b, rad) ==
  LET i == CHOOSE j \in 1..Len(b) :
             ~IsZero(b[j]) /\ \A h \in 1..(j - 1) : IsZero(b[h])
  IN  NDiv(NSub(out[i], code[i]), b[i], rad)

MovedAlong(out, code, b, rad) ==
  out = VAdd(code, VScale(DistanceOf(out, code, b, rad), b, rad))

\* C1: each interpolation k of a sample is the sample's code moved along the
\* boundary by distances[k] = start + k*(end - start)/max(steps - 1, 1): the
\* distances are evenly spaced, the first is start_distance and, for
\* steps >= 2, the last is end_distance.
C1_InterpolationFormula ==
  JustInterpolated /\ args.steps >= 1 =>
    LET code == latent_codes[sample_id + 1]
        b == boundary.vec
        rad == boundary.rad
        start == args.dist[1]
        end == args.dist[2]
        n == args.steps
        t(k) == DistanceOf(interpolations[k + 1], code, b, rad)
        gap == NDiv(NSub(end, start), FromInt(Max(n - 1, 1)), 1)
    IN  /\ \A k \in 0..(n - 1) :
             /\ k + 1 \in DOMAIN interpolations
             /\ MovedAlong(interpolations[k + 1], code, b, rad)
             /\ t(k) = NAdd(start, NMul(FromInt(k), gap, 1))
        /\ \A k \in 0..(n - 2) : NSub(t(k + 1), t(k)) = gap
        /\ t(0) = start
        /\ n >= 2 => t(n - 1) = end

C1_Witness ==
  /\ JustInterpolated
  /\ args.steps >= 3
  /\ args.dist[1] # args.dist[2]
  /\ cond_boundaries # <<>>
  /\ sample_id = 1

\* C2: the sequence linear_interpolate returns for steps >= 1 has exactly
\* steps elements, whatever the two distances are.
C2_LengthIsSteps ==
  JustInterpolated /\ args.steps >= 1 => Len(interpolations) = args.steps

C2_Witness ==
  /\ JustInterpolated
  /\ args.steps = 3
  /\ Len(interpolations) = 3
  /\ args.dist[1] = args.dist[2]

\* R lies in the span of the linearly independent rows of A
InSpan(R, A, rad) == IsZero(Det(GramMatrix(A \o <<R>>, rad), rad))

Conds == [i \in 1..Len(GivenConds) |-> IntVec(GivenConds[i])]

\* C3: when the primary boundary and the given conditionals are linearly
\* independent, the projection succeeds and its result is orthogonal to
\* every conditional, has unit norm and lies in the span of primary and
\* conditionals.
C3_OrthogonalUnitInSpan ==
  /\ pc \notin {"load_boundary", "load_conditionals", "project"}
       /\ args.boundary # NoFile
       /\ LinearlyIndependent(<<args.boundary>> \o GivenConds)
       => BoundaryFile \in DOMAIN files /\ error # "SingularMatrix"
  /\ JustProjected /\ LinearlyIndependent(<<args.boundary>> \o GivenConds) =>
       /\ \A i \in 1..Len(Conds) :
            IsZero(Dot(boundary.vec, Conds[i], boundary.rad))
       /\ Dot(boundary.vec, boundary.vec, boundary.rad) = One
       /\ InSpan(boundary.vec, <<IntVec(args.boundary)>> \o Conds,
                 boundary.rad)

C3_Witness ==
  /\ JustProjected
  /\ Len(GivenConds) = 2
  /\ boundary.rad # 1
  /\ \A i \in 1..2 : ~IsZero(Dot(IntVec(args.boundary), Conds[i], 1))

\* C4: when the primary boundary and the given conditionals are linearly
\* dependent, the run ends at project_boundary with SingularMatrix: no
\* boundary is returned, saved or used.
C4_DependentIsSingular ==
  /\ args.boundary # NoFile
  /\ ~LinearlyIndependent(<<args.boundary>> \o GivenConds)
  /\ pc \notin {"load_boundary", "load_conditionals", "project"}
  => /\ pc = "failed"
     /\ error = "SingularMatrix"
     /\ boundary = [vec |-> IntVec(args.boundary), rad |-> 1]
     /\ BoundaryFile \notin DOMAIN files
     /\ interp_calls = 0

\* the same conditional file given for both paths, independent of the primary
C4_Witness ==
  /\ pc = "failed"
  /\ error = "SingularMatrix"
  /\ args.cond1 # NoFile
  /\ args.cond1 = args.cond2
  /\ LinearlyIndependent(<<args.boundary, args.cond1>>)

\* C7: a --steps below 1 is rejected before the interpolator is called: the
\* run does not end successfully, linear_interpolate is never called and no
\* image is written.
C7_StepsValidatedBeforeInterpolation ==
  args.steps < 1 =>
    /\ interp_calls = 0
    /\ pc # "done"
    /\ writes = 0

\* C9: with no conditional boundary file, project_boundary returns the
\* primary boundary scaled to unit length, pointing the same way, without
\* solving a linear system and without error.
C9_NoConditionalsNormalizes ==
  /\ pc \notin {"load_boundary", "load_conditionals", "project"}
       /\ args.boundary # NoFile /\ GivenConds = <<>>
       => BoundaryFile \in DOMAIN files /\ error # "SingularMatrix"
  /\ JustProjected /\ GivenConds = <<>> =>
       LET B == IntVec(args.boundary)
           along == Dot(boundary.vec, B, boundary.rad)
       IN  /\ ~solved
           /\ Dot(boundary.vec, boundary.vec, boundary.rad) = One
           /\ IsPositive(along, boundary.rad)
           /\ VScale(along, boundary.vec, boundary.rad) = B

C9_Witness ==
  /\ JustProjected
  /\ GivenConds = <<>>
  /\ boundary.rad # 1

\* C12: linear_interpolate called with steps < 1 fails with InvalidRange
\* and hands back no sequence: the run ends at its first call, with nothing
\* to synthesize and no image written.
C12_StepsBelowOneIsInvalidRange ==
  args.steps < 1 /\ interp_calls >= 1 =>
    /\ pc = "failed"
    /\ error = "InvalidRange"
    /\ interp_calls = 1
    /\ interpolations = <<>>
    /\ pending = <<>>
    /\ writes = 0

C12_Witness ==
  /\ error = "InvalidRange"
  /\ args.steps = 0
  /\ interp_calls = 1
  /\ cond_boundaries # <<>>

\* the samples whose images are all written
FinishedSamples ==
  IF pc \in {"sample", "batch", "done"} \/ error = "AssertionError"
  THEN 0..(sample_id - 1)
  ELSE {}

\* the interpolation numbers under which images of sample sid are saved
SavedIds(sid) == {n[3] : n \in {m \in DOMAIN files : m[1] = "jpg" /\ m[2] = sid}}

\* C13: whatever the batch size, each finished sample has exactly one image
\* per interpolation, image k saved as <sample_id>_<k> for k = 0..steps-1 in
\* interpolation order, the sample in progress has its first
\* interpolation_id images saved the same way, and the assertion
\* interpolation_id == steps never fails.
C13_OneImagePerInterpolationInOrder ==
  /\ error # "AssertionError"
  /\ \A sid \in FinishedSamples :
       LET expected == InterpolateCall(latent_codes, sid, boundary, args).seq
       IN  /\ SavedIds(sid) = 0..(args.steps - 1)
           /\ \A k \in 0..(args.steps - 1) :
                files[ImageFile(sid, k)] = Image(expected[k + 1])
  /\ pc = "batch" =>
       /\ SavedIds(sample_id) = 0..(interpolation_id - 1)
       /\ \A k \in 0..(interpolation_id - 1) :
            files[ImageFile(sample_id, k)] = Image(interpolations[k + 1])
       /\ interpolation_id + Len(pending) = args.steps
       /\ writes = args.steps * sample_id + interpolation_id
  /\ pc \in {"sample", "done"} => writes = args.steps * sample_id

\* two samples of three interpolations each, in batches of two and one
C13_Witness ==
  /\ pc = "done"
  /\ sample_id = 2
  /\ args.steps = 3
  /\ batch_size = 2
  /\ writes = 6

\* ------------------------------------------------------------ properties of face_modify.py

CodePlus(code, b, offset) == VAdd(code, VScale(offset, b, 1))

\* C5: linear_interpolate with steps = 1 returns the one code
\* code + start_distance * boundary, whatever end_distance is, and every
\* modify_latent_code(boundary, offset) of a modify call returns what
\* linear_interpolate(latent_code, boundary, offset, offset, 1) holds.
C5_SingleOffsetEdit ==
  /\ \A b \in 1..4 : \A de \in {<<Rat(1, 2), Rat(1, 2)>>, <<FromInt(-1), FromInt(2)>>} :
       LET r == linear_interpolate(heap[latent_code], heap[b], de[1], de[2],
                                   1, 1)
       IN  /\ r.status = "ok"
           /\ r.seq = <<CodePlus(heap[latent_code], heap[b], de[1])>>
  /\ last.op = "modify" =>
       \A i \in 1..Len(last.edits) :
         LET ed == last.edits[i]
             r == linear_interpolate(ed.before, ed.boundary,
                                     FromInt(ed.offset), FromInt(ed.offset),
                                     1, 1)
         IN  /\ r.status = "ok"
             /\ r.seq = <<ed.after>>
             /\ ed.after = CodePlus(ed.before, ed.boundary, FromInt(ed.offset))

C5_Witness ==
  /\ last.op = "modify"
  /\ Len(last.edits) >= 2
  /\ last.edits[1].after # last.edits[1].before

\* C6: a modify call with a non-zero smile_offset leaves the held code at
\* the code before the call plus age_offset * age + pose_offset * pose
\* + smile_offset * smile + gender_offset * gender: the smile offset moves
\* along the smile boundary and the pose boundary takes the pose offset only.
C6_SmileMovesAlongSmileBoundary ==
  last.op = "modify" /\ last.offsets[4] # 0 =>
    heap[last.code] =
      CodePlus(
        CodePlus(
          CodePlus(
            CodePlus(last.before, IntVec(loaded[age_boundary]),
                     FromInt(last.offsets[1])),
            IntVec(loaded[pose_boundary]), FromInt(last.offsets[3])),
          IntVec(loaded[smile_boundary]), FromInt(last.offsets[4])),
        IntVec(loaded[gender_boundary]), FromInt(last.offsets[2]))

\* C8: every array passed to set_latent_code, every latent code an earlier
\* modify returned and the four boundaries hold the values they had when
\* they were passed, returned or loaded.
C8_NoInPlaceChange ==
  /\ \A i \in 1..Len(given) : heap[given[i].ref] = given[i].value
  /\ \A i \in 1..Len(returned) : heap[returned[i].ref] = returned[i].value
  /\ \A b \in 1..4 : heap[b] = IntVec(loaded[b])

\* a given code was edited twice, and each edit was returned
C8_Witness ==
  /\ Len(given) = 1
  /\ Len(returned) = 2
  /\ given[1].ref # returned[1].ref
  /\ returned[1].ref # returned[2].ref
  /\ heap[returned[1].ref] # heap[returned[2].ref]
  /\ heap[returned[1].ref] # heap[given[1].ref]

\* C14: a modify call with all four offsets 0 applies no boundary, calls
\* synthesize exactly once, creates no array, leaves self.latent_code the
\* array it was with the contents it had, and returns that array as the code.
C14_ZeroOffsetsLeaveCode ==
  last.op = "modify" /\ last.offsets = <<0, 0, 0, 0>> =>
    /\ last.edits = <<>>
    /\ last.synth_calls = 1
    /\ last.allocated = 0
    /\ latent_code = last.before_ref
    /\ heap[latent_code] = last.before
    /\ last.code = last.before_ref

C14_Witness ==
  /\ last.op = "modify"
  /\ last.offsets = <<0, 0, 0, 0>>
  /\ given # <<>>
  /\ applied.displacements # <<>>

\* offset * boundary of the displacements i..Len(ds), added last to first
RECURSIVE SumFrom(_, _)
SumFrom(ds, i) ==
  IF i > Len(ds) THEN VZero(3)
  ELSE VAdd(SumFrom(ds, i + 1),
            VScale(FromInt(ds[i].offset), ds[i].boundary, 1))

\* C15: after set_latent_code(c0) and any modify calls, the held code is
\* c0 plus the sum of every offset * boundary applied since, in whatever
\* order they are added; the code the last modify returned is the held
\* code, and a displacement applied is never lost to a later call.
C15_EditsAccumulate ==
  given # <<>> =>
    /\ heap[latent_code] = VAdd(applied.base, SumFrom(applied.displacements, 1))
    /\ last.op = "modify" =>
         /\ last.code = latent_code
         /\ heap[last.code] = VAdd(last.before, SumFrom(last.edits, 1))

\* displacements of two modify calls on a code the caller set
C15_Witness ==
  /\ given # <<>>
  /\ last.op = "modify"
  /\ Len(applied.displacements) > Len(last.edits)
  /\ Len(last.edits) >= 2
  /\ heap[latent_code] # applied.base

\* C16: the image modify returns is, on both paths, the value synthesize()
\* produces for the final latent code.
C16_ImageIsSynthesizeValue ==
  last.op = "modify" => last.image = Decode(heap[last.code])

\* ------------------------------------------------------------ properties of projecting twice

\* C10: when R = project(B, Cs) succeeds, project(R, Cs) succeeds and
\* returns R.
C10_ProjectIdempotent ==
  p_pc = "done" =>
    /\ p_second.status = "ok"
    /\ p_second.vec = p_first.vec
    /\ p_second.rad = p_first.rad

C10_Witness ==
  /\ p_pc = "done"
  /\ Len(p_conds) = 2
  /\ p_first.rad # 1
  /\ \A i \in 1..2 : ~IsZero(Dot(IntVec(p_primal), p_conds[i], 1))

\* ------------------------------------------------------------ properties of concurrent callers

\* what the call returns when it runs with no other call
Alone(req) ==
  Apply(req, SharedArrays[req.first],
        [k \in 1..Len(req.rest) |-> SharedArrays[req.rest[k]]])

=============================================================================
